---- MODULE Spec2Model ----
(***************************************************************************)
(* Model of package httpassert (server.go): a mock HTTP server that routes *)
(* each request to the first matching ExpectedCall, counts calls, records  *)
(* unmatched requests as synthetic entries and reports the balance in      *)
(* Assert.                                                                 *)
(*                                                                         *)
(* Memory model.  Server.ExpectedCalls is a slice of ExpectedCall VALUES.  *)
(* The slice header (array, len, cap) is read without the lock by          *)
(* serveHTTP and Assert and written under s.m by Expect.  heap is the      *)
(* sequence of backing arrays ever allocated; the last one is the array    *)
(* the header points to.  append reallocates when len = cap and copies     *)
(* the elements, counter and mutex included, into the new array.  A        *)
(* worker that took &s.ExpectedCalls[i] before a reallocation keeps        *)
(* pointing into the old array.  The unsynchronised reads are modelled by  *)
(* interleaving: a racing read sees the header before or after the write.  *)
(***************************************************************************)
EXTENDS Integers, Sequences, FiniteSets, TLC

\* ---------------------------------------------------------------- bounds
MaxRequests == 2
MaxExpect == 2
MaxCalls == 1
MaxPathLen == 2
MaxAsserts == 2
MaxServers == 2
MaxDeclared == 1
MaxMiddleware == 2

\* ------------------------------------------------------------ input sets
\* net/http runs every request on a goroutine of its own.
Workers == 1..MaxRequests
\* Paths are sequences of characters, so that prefix matching is computed.
NilHandler == "nil"
Requests ==
  {[Method |-> "GET", Path |-> <<"/", "a">>],
   [Method |-> "GET", Path |-> <<"/", "b">>],
   [Method |-> "POST", Path |-> <<"/", "a">>]}
\* The routes test code declares: a broad prefix with a handler and a
\* narrower one without.
Routes ==
  {[Method |-> "GET", Path |-> <<"/">>, Handler |-> "h"],
   [Method |-> "GET", Path |-> <<"/", "a">>, Handler |-> NilHandler]}
\* The ExpectedCall literals test code may pass to Expect.
Declarations ==
  {[Method |-> rt.Method, Path |-> rt.Path, Handler |-> rt.Handler,
    Calls |-> c, m |-> FALSE] : rt \in Routes, c \in 0..MaxCalls}

\* -------------------------------------------------------------- state
VARIABLES
  heap,      \* backing arrays of s.ExpectedCalls, oldest first
  cap,       \* capacity of the current backing array
  sm,        \* who holds Server.m: NoOne, the test or a request goroutine
  worker,    \* per request goroutine: position and locals of serveHTTP
  test,      \* the test goroutine: position in Expect and its argument
  result,    \* return value of the operation that just ran, if Assert
  account,   \* per list index: registered by whom, and with which count N
  listener,  \* Server.Server, the httptest listener: open or closed
  probe,     \* a direct call of ExpectedCall.Match: receiver, request, result
  testServers, \* the package's registry, and each registered server's state
  report     \* what the last operation on the registry returned or traced

server == <<heap, cap, sm, worker, test, result, account, listener>>
other == <<probe, testServers, report>>
vars == <<heap, cap, sm, worker, test, result, account, listener, other>>

NoOne == "free"
TestProc == "test"
RequestProc == "request"
Local == [gen |-> 0, idx |-> 0]
NoReq == [Method |-> "", Path |-> <<>>]
NoEC == [Method |-> "", Path |-> <<>>, Handler |-> NilHandler, Calls |-> 0, m |-> FALSE]
NoProbe == [ec |-> NoEC, r |-> NoReq, called |-> FALSE, res |-> FALSE]
NoResult == [op |-> "none", pass |-> TRUE, errors |-> <<>>, nth |-> 0]
\* No package-level Assert has run and no request has been traced.
NoReport ==
  [phase |-> "idle", i |-> 0, pass |-> TRUE, calls |-> <<>>,
   n |-> 0, srv |-> 0, req |-> NoReq, trace |-> <<>>]
\* A goroutine that has not received its request yet.
Fresh ==
  [pc |-> "new", req |-> NoReq, n |-> 0, i |-> 0, ptr |-> Local,
   ec |-> NoEC, h |-> "none", out |-> "none"]
\* A goroutine that has left serveHTTP: what it handled, where and how.
Finished(me, how) ==
  [Fresh EXCEPT !.pc = "done", !.req = me.req, !.out = how,
                !.ptr = [gen |-> 0, idx |-> me.ptr.idx]]

\* The array the slice header points to, and the slice itself.
cur == Len(heap)
ExpectedCalls == heap[cur]

\* Backing arrays no pointer reaches any more are garbage.
Collect(arrays, ws) ==
  [g \in DOMAIN arrays |->
     IF g = Len(arrays) \/ \E w \in Workers : ws[w].ptr.gen = g
     THEN arrays[g] ELSE <<>>]

\* ------------------------------------------------------ pure functions
\* Mutant: the arguments of strings.HasPrefix swapped.
HasPrefixSwapped(s, prefix) ==
  Len(prefix) >= Len(s) /\ SubSeq(prefix, 1, Len(s)) = s

\* strings.HasPrefix: len(s) >= len(prefix) && s[:len(prefix)] == prefix
HasPrefix(s, prefix) ==
  Len(s) >= Len(prefix) /\ SubSeq(s, 1, Len(prefix)) = prefix

\* ExpectedCall.Match
Match(ec, r) == ec.Method = r.Method /\ HasPrefix(r.Path, ec.Path)

\* The handler ExpectedCall.ServeHTTP dispatches to.
NotFound == "NotFound"
\* Mutant: the nil check dropped, the Handler field is called as it is.
ResolveHandlerRaw(ec) == ec.Handler

ResolveHandler(ec) == IF ec.Handler = NilHandler THEN NotFound ELSE ec.Handler

\* Mutant: the addition is lost, only the mutex is released.
IncrementLost(ec, i) == [ec EXCEPT !.m = FALSE]

\* ExpectedCall.Increment, the part under the mutex: Calls += i, then unlock.
Increment(ec, i) == [ec EXCEPT !.Calls = @ + i, !.m = FALSE]

\* Mutant: the literal built without its Method.
SyntheticNoMethod(r) ==
  [Method |-> "", Path |-> r.Path, Handler |-> NilHandler,
   Calls |-> 0, m |-> FALSE]

\* The ExpectedCall literal serveHTTP builds for an unmatched request.
Synthetic(r) ==
  [Method |-> r.Method, Path |-> r.Path, Handler |-> NilHandler,
   Calls |-> 0, m |-> FALSE]

\* Capacities a reallocating append may choose for a slice of length n:
\* the language only promises "sufficiently large".
NewCaps(n) == {n + 1, 2 * (n + 1)}

\* The messages of Server.Assert, in the order of the loop.
Unexpected(ec) ==
  [kind |-> "unexpected", n |-> 0 - ec.Calls, Method |-> ec.Method, Path |-> ec.Path]
Missing(ec) ==
  [kind |-> "expected", n |-> ec.Calls, Method |-> ec.Method, Path |-> ec.Path]

\* Mutant: the loop stops at the first entry it reports.
RECURSIVE AssertErrorsFirst(_)
AssertErrorsFirst(list) ==
  IF list = <<>> THEN <<>>
  ELSE LET ec == Head(list) IN
       IF ec.Calls < 0 THEN <<Unexpected(ec)>>
       ELSE IF ec.Calls > 0 THEN <<Missing(ec)>>
       ELSE AssertErrorsFirst(Tail(list))

RECURSIVE AssertErrors(_)
AssertErrors(list) ==
  IF list = <<>> THEN <<>>
  ELSE LET ec == Head(list) IN
       (IF ec.Calls < 0 THEN <<Unexpected(ec)>> ELSE <<>>)
       \o (IF ec.Calls > 0 THEN <<Missing(ec)>> ELSE <<>>)
       \o AssertErrors(Tail(list))

\* Mutant: the branch for negative counters does not clear pass.
RECURSIVE AssertPassNoUnexpected(_)
AssertPassNoUnexpected(list) ==
  IF list = <<>> THEN TRUE
  ELSE ~(Head(list).Calls > 0) /\ AssertPassNoUnexpected(Tail(list))

RECURSIVE AssertPass(_)
AssertPass(list) ==
  IF list = <<>> THEN TRUE
  ELSE LET ec == Head(list) IN
       ~(ec.Calls < 0) /\ ~(ec.Calls > 0) /\ AssertPass(Tail(list))

\* ------------------------------------------------------------- Init
\* New: no expectations, a nil slice, nothing locked, no request yet.
InitServer ==
  /\ heap = << <<>> >>
  /\ cap = 0
  /\ sm = NoOne
  /\ worker = [w \in Workers |-> Fresh]
  /\ test = [pc |-> "idle", ec |-> NoEC, calls |-> 0]
  /\ result = NoResult
  /\ account = <<>>
  /\ listener = "open"

Init == InitServer /\ probe = NoProbe /\ testServers = <<>> /\ report = NoReport

\* --------------------------------------------------- request goroutines
\* serveHTTP about to run iteration k of its loop: past the last index it
\* builds the synthetic ExpectedCall, a local variable, and enters its
\* ServeHTTP, which resolves the handler.  None of this touches shared
\* state, so it is part of the step that led here.
Continue(me, k) ==
  IF k <= me.n
  THEN [me EXCEPT !.pc = "scan", !.i = k]
  ELSE [me EXCEPT !.pc = "handler", !.i = k, !.ptr = Local,
                  !.ec = Synthetic(me.req),
                  !.h = ResolveHandler(Synthetic(me.req))]

\* Server.ServeHTTP -> serveHTTP: the range expression is evaluated once.
\* Goroutines are interchangeable: they are taken in the order of their ids.
Receive(w, r) ==
  /\ worker[w].pc = "new"
  /\ listener = "open"
  /\ \A v \in Workers : v < w => worker[v].pc # "new"
  /\ worker' = [worker EXCEPT ![w] =
       Continue([Fresh EXCEPT !.req = r, !.n = Len(ExpectedCalls)], 1)]
  /\ result' = NoResult
  /\ UNCHANGED <<heap, cap, sm, test, account, listener, other>>

\* Mutant: the loop does not return on a match while a later entry of the
\* range matches too, so the last match serves the request.
ScanLastMatch(w) ==
  LET me == worker[w] IN
  /\ me.pc = "scan"
  /\ IF /\ Match(ExpectedCalls[me.i], me.req)
        /\ ~\E j \in (me.i + 1)..me.n : Match(ExpectedCalls[j], me.req)
     THEN worker' = [worker EXCEPT ![w] =
            [me EXCEPT !.pc = "handler",
                       !.ptr = [gen |-> cur, idx |-> me.i],
                       !.h = ResolveHandler(ExpectedCalls[me.i])]]
     ELSE worker' = [worker EXCEPT ![w] = Continue(me, me.i + 1)]
  /\ result' = NoResult
  /\ UNCHANGED <<heap, cap, sm, test, account, listener, other>>

\* Mutant: the entry's mutex is taken at dispatch, before the handler runs.
ScanLocking(w) ==
  LET me == worker[w] IN
  /\ me.pc = "scan"
  /\ IF Match(ExpectedCalls[me.i], me.req)
     THEN /\ worker' = [worker EXCEPT ![w] =
               [me EXCEPT !.pc = "handler",
                          !.ptr = [gen |-> cur, idx |-> me.i],
                          !.h = ResolveHandler(ExpectedCalls[me.i])]]
          /\ heap' = [heap EXCEPT ![cur][me.i].m = TRUE]
     ELSE /\ worker' = [worker EXCEPT ![w] = Continue(me, me.i + 1)]
          /\ heap' = heap
  /\ result' = NoResult
  /\ UNCHANGED <<cap, sm, test, account, listener, other>>

\* One iteration of the loop of serveHTTP.  s.ExpectedCalls[i] reads the
\* slice header again in every iteration; on a match the receiver of
\* ServeHTTP is &s.ExpectedCalls[i], a pointer into the current array.
Scan(w) ==
  LET me == worker[w] IN
  /\ me.pc = "scan"
  /\ IF Match(ExpectedCalls[me.i], me.req)
     THEN worker' = [worker EXCEPT ![w] =
            [me EXCEPT !.pc = "handler",
                       !.ptr = [gen |-> cur, idx |-> me.i],
                       !.h = ResolveHandler(ExpectedCalls[me.i])]]
     ELSE worker' = [worker EXCEPT ![w] = Continue(me, me.i + 1)]
  /\ result' = NoResult
  /\ UNCHANGED <<heap, cap, sm, test, account, listener, other>>

\* h.ServeHTTP(w, r) returns and Increment(-1) is called.  On the local
\* synthetic ExpectedCall no other goroutine can hold the mutex, and the
\* whole Increment is local.
HandlerReturn(w) ==
  LET me == worker[w] IN
  /\ me.pc = "handler"
  /\ worker' = [worker EXCEPT ![w] =
       IF me.ptr = Local
       THEN [me EXCEPT !.pc = "expect", !.ec = Increment(me.ec, -1)]
       ELSE [me EXCEPT !.pc = "incLock"]]
  /\ result' = NoResult
  /\ UNCHANGED <<heap, cap, sm, test, account, listener, other>>

\* h.ServeHTTP(w, r) panics or exits the goroutine (t.FailNow): the rest
\* of ExpectedCall.ServeHTTP and of serveHTTP does not run.  http.NotFound
\* always returns.
HandlerAbort(w) ==
  /\ worker[w].pc = "handler"
  /\ worker[w].h # NotFound
  /\ worker' = [worker EXCEPT ![w] = Finished(worker[w], "aborted")]
  /\ heap' = Collect(heap, worker')
  /\ result' = NoResult
  /\ UNCHANGED <<cap, sm, test, account, listener, other>>

\* The ExpectedCall a worker's receiver pointer designates.
Target(w) == heap[worker[w].ptr.gen][worker[w].ptr.idx]

\* ec.m.Lock() in Increment.
IncrementLock(w) ==
  LET me == worker[w] IN
  /\ me.pc = "incLock"
  /\ ~Target(w).m
  /\ worker' = [worker EXCEPT ![w].pc = "incAdd"]
  /\ heap' = [heap EXCEPT ![me.ptr.gen][me.ptr.idx].m = TRUE]
  /\ result' = NoResult
  /\ UNCHANGED <<cap, sm, test, account, listener, other>>

\* ec.Calls += i and the deferred Unlock; ServeHTTP and serveHTTP return.
IncrementAdd(w) ==
  LET me == worker[w] IN
  /\ me.pc = "incAdd"
  /\ worker' = [worker EXCEPT ![w] = Finished(me, "served")]
  /\ heap' = Collect([heap EXCEPT ![me.ptr.gen][me.ptr.idx] =
                        Increment(Target(w), -1)], worker')
  /\ result' = NoResult
  /\ UNCHANGED <<cap, sm, test, account, listener, other>>

\* ----------------------------------------------------------- Expect
\* Mutant: the new entry is put in front of the list, in a new array.
AppendCallInFront(arrays, ec) ==
  Append(arrays, <<ec>> \o arrays[Len(arrays)])

\* s.ExpectedCalls = append(s.ExpectedCalls, ec)
AppendCall(arrays, ec) ==
  IF Len(arrays[Len(arrays)]) < cap
  THEN [arrays EXCEPT ![Len(arrays)] = Append(@, ec)]
  ELSE Append(arrays, Append(arrays[Len(arrays)], ec))

\* The capacity of the slice after the append.
Grow(c) ==
  IF Len(ExpectedCalls) < cap THEN c = cap ELSE c \in NewCaps(Len(ExpectedCalls))

\* Mutant: Expect appends without waiting for the lock.
ExpectLockFree(w) ==
  /\ worker[w].pc = "expect"
  /\ sm' = RequestProc
  /\ worker' = [worker EXCEPT ![w].pc = "append"]
  /\ result' = NoResult
  /\ UNCHANGED <<heap, cap, test, account, listener, other>>

\* s.m.Lock() in Expect, called by the synthetic path of serveHTTP.
ExpectLock(w) ==
  /\ worker[w].pc = "expect"
  /\ sm = NoOne
  /\ sm' = RequestProc
  /\ worker' = [worker EXCEPT ![w].pc = "append"]
  /\ result' = NoResult
  /\ UNCHANGED <<heap, cap, test, account, listener, other>>

\* The append and the deferred Unlock; serveHTTP returns.
ExpectAppend(w) ==
  LET me == worker[w] IN
  /\ me.pc = "append"
  /\ sm = RequestProc
  /\ worker' = [worker EXCEPT ![w] =
       Finished([me EXCEPT !.ptr = [gen |-> 0, idx |-> Len(ExpectedCalls) + 1]],
                "synthetic")]
  /\ heap' = Collect(AppendCall(heap, me.ec), worker')
  /\ \E c \in 0..(2 * (Len(ExpectedCalls) + 1)) : Grow(c) /\ cap' = c
  /\ sm' = NoOne
  /\ account' = Append(account, [synthetic |-> TRUE, N |-> 0])
  /\ result' = NoResult
  /\ UNCHANGED <<test, listener, other>>

\* s.m.Lock() in Expect, called by test code.
TestExpectLock(ec) ==
  /\ test.pc = "idle"
  /\ test.calls < MaxExpect
  /\ sm = NoOne
  /\ sm' = TestProc
  /\ test' = [test EXCEPT !.pc = "append", !.ec = ec]
  /\ result' = NoResult
  /\ UNCHANGED <<heap, cap, worker, account, listener, other>>

TestExpectAppend ==
  /\ test.pc = "append"
  /\ sm = TestProc
  /\ heap' = Collect(AppendCall(heap, test.ec), worker)
  /\ \E c \in 0..(2 * (Len(ExpectedCalls) + 1)) : Grow(c) /\ cap' = c
  /\ sm' = NoOne
  /\ test' = [pc |-> "idle", ec |-> NoEC, calls |-> test.calls + 1]
  /\ account' = Append(account, [synthetic |-> FALSE, N |-> test.ec.Calls])
  /\ result' = NoResult
  /\ UNCHANGED <<worker, listener, other>>

\* ----------------------------------------------------------- Assert
\* Server.Assert, called by test code with a fresh reporter.
\* Mutant: the counters that were reported are reset.
AssertCallConsuming ==
  /\ test.pc = "idle"
  /\ result.nth < MaxAsserts
  /\ result' = [op |-> "Assert", pass |-> AssertPass(ExpectedCalls),
                errors |-> AssertErrors(ExpectedCalls),
                nth |-> result.nth + 1]
  /\ heap' = [heap EXCEPT ![cur] =
                [i \in DOMAIN ExpectedCalls |-> [ExpectedCalls[i] EXCEPT !.Calls = 0]]]
  /\ UNCHANGED <<cap, sm, worker, test, account, listener, other>>

\* nth counts the calls made in a row, with nothing in between.
AssertCall ==
  /\ test.pc = "idle"
  /\ result.nth < MaxAsserts
  /\ result' = [op |-> "Assert", pass |-> AssertPass(ExpectedCalls),
                errors |-> AssertErrors(ExpectedCalls),
                nth |-> result.nth + 1]
  /\ UNCHANGED <<heap, cap, sm, worker, test, account, listener, other>>

\* ------------------------------------------------------------ Close
\* Mutant: Close also drops the expectations.
CloseCallClearing ==
  /\ test.pc = "idle"
  /\ listener = "open"
  /\ \A w \in Workers : worker[w].pc \in {"new", "done"}
  /\ listener' = "closed"
  /\ heap' = [heap EXCEPT ![cur] = <<>>]
  /\ account' = <<>>
  /\ result' = NoResult
  /\ UNCHANGED <<cap, sm, worker, test, other>>

\* Server.Close: s.Server.Close(), which stops the listener and returns
\* once the outstanding requests have completed.  The step is the return.
CloseCall ==
  /\ test.pc = "idle"
  /\ listener = "open"
  /\ \A w \in Workers : worker[w].pc \in {"new", "done"}
  /\ listener' = "closed"
  /\ result' = NoResult
  /\ UNCHANGED <<heap, cap, sm, worker, test, account, other>>

Next ==
  \/ \E w \in Workers, r \in Requests : Receive(w, r)
  \/ \E w \in Workers : Scan(w)
  \/ \E w \in Workers : HandlerReturn(w)
  \/ \E w \in Workers : HandlerAbort(w)
  \/ \E w \in Workers : IncrementLock(w)
  \/ \E w \in Workers : IncrementAdd(w)
  \/ \E w \in Workers : ExpectLock(w)
  \/ \E w \in Workers : ExpectAppend(w)
  \/ \E ec \in Declarations : TestExpectLock(ec)
  \/ TestExpectAppend
  \/ AssertCall
  \/ CloseCall

Spec == Init /\ [][Next]_vars

\* ------------------------------------------------ Match called directly
\* ExpectedCall.Match on arbitrary receivers and requests: methods, and
\* paths of up to MaxPathLen characters, the empty path included.
Chars == {"/", "a", "b"}
AllPaths == UNION {[1..k -> Chars] : k \in 0..MaxPathLen}
ProbeMethods == {"GET", "POST"}

InitMatch ==
  /\ InitServer /\ testServers = <<>> /\ report = NoReport
  /\ \E mth \in ProbeMethods, pre \in AllPaths, rm \in ProbeMethods, rp \in AllPaths :
       probe = [ec |-> [NoEC EXCEPT !.Method = mth, !.Path = pre],
                r |-> [Method |-> rm, Path |-> rp],
                called |-> FALSE, res |-> FALSE]

MatchCall ==
  /\ ~probe.called
  /\ probe' = [probe EXCEPT !.called = TRUE, !.res = Match(probe.ec, probe.r)]
  /\ UNCHANGED <<server, testServers, report>>

NextMatch == MatchCall

SpecMatch == InitMatch /\ [][NextMatch]_vars

\* ------------------------------------------- the package and its servers
\* Test code is one goroutine: it calls New, Use, Expect and the package's
\* Assert one after the other, while the servers handle requests.  Each
\* request is handled here in one step, ServeHTTP from entry to return.
\* Test code gives every server a name of its own.
Names == {"users", "orders"}
\* The ExpectedCall literals it registers: one call of a route.
Expected == {ec \in Declarations : ec.Calls = MaxCalls}
\* A Middleware is a func(http.Handler) http.Handler.  "log" always calls
\* the handler it wraps; "auth" calls it for GET and answers POST itself.
Middlewares == {"log", "auth"}
CallsNext(mw, r) == mw = "log" \/ r.Method = "GET"
\* The argument lists test code passes to the variadic Use.
UseArgs == {<<"log">>, <<"auth">>, <<"log", "auth">>}
\* The name of the innermost handler of every chain.
Routing == "serveHTTP"

\* Mutant: the loop runs from the first middleware to the last.
RECURSIVE WrapForward(_, _, _)
WrapForward(ms, i, h) ==
  IF i > 0 THEN WrapForward(ms, i - 1, <<ms[Len(ms) - i + 1]>> \o h) ELSE h

\* for i := len(s.middleware); i > 0; i-- { h = s.middleware[i-1](h) }
\* A handler is the sequence of the functions it runs, outermost first;
\* wrapping h in a middleware puts the middleware in front of h.
RECURSIVE Wrap(_, _, _)
Wrap(ms, i, h) ==
  IF i > 0 THEN Wrap(ms, i - 1, <<ms[i]>> \o h) ELSE h

\* h.ServeHTTP(w, r): the functions entered, in order.  A middleware that
\* does not call the handler it wraps ends the request.
RECURSIVE Run(_, _, _)
Run(h, r, j) ==
  IF j > Len(h) THEN <<>>
  ELSE IF h[j] = Routing \/ CallsNext(h[j], r)
       THEN <<h[j]>> \o Run(h, r, j + 1)
       ELSE <<h[j]>>

\* The loop of serveHTTP: the index of the first match from i on, or 0.
RECURSIVE FirstMatch(_, _, _)
FirstMatch(list, r, i) ==
  IF i > Len(list) THEN 0
  ELSE IF Match(list[i], r) THEN i
  ELSE FirstMatch(list, r, i + 1)

\* serveHTTP run alone: the first match is served and counted, unless its
\* handler does not return; without a match a new ExpectedCall is served
\* by NotFound, counted and appended.
serveHTTP(list, r, returns) ==
  LET i == FirstMatch(list, r, 1) IN
  IF i # 0
  THEN IF returns \/ ResolveHandler(list[i]) = NotFound
       THEN [list EXCEPT ![i] = Increment(@, -1)]
       ELSE list
  ELSE Append(list, Increment(Synthetic(r), -1))

\* report holds what the package's Assert returned, and the trace of a
\* request, only in the state right after the return; n counts requests.
Forget(rep) == [NoReport EXCEPT !.n = rep.n]
\* A step of the package's Assert keeps its own fields only.
Untraced(rep) == [rep EXCEPT !.srv = 0, !.req = NoReq, !.trace = <<>>]

New(name) ==
  /\ report.phase # "running"
  /\ Len(testServers) < MaxServers
  /\ \A k \in DOMAIN testServers : testServers[k].Name # name
  /\ testServers' = Append(testServers,
       [Name |-> name, ExpectedCalls |-> <<>>, middleware |-> <<>>])
  /\ report' = Forget(report)
  /\ UNCHANGED <<server, probe>>

Use(k, ms) ==
  /\ report.phase # "running"
  /\ Len(testServers[k].middleware) + Len(ms) <= MaxMiddleware
  /\ testServers' = [testServers EXCEPT ![k].middleware = @ \o ms]
  /\ report' = Forget(report)
  /\ UNCHANGED <<server, probe>>

Expect(k, ec) ==
  /\ report.phase # "running"
  /\ Len(SelectSeq(testServers[k].ExpectedCalls,
                   LAMBDA e : e.Handler # NilHandler \/ e.Calls >= 0)) < MaxDeclared
  /\ testServers' = [testServers EXCEPT ![k].ExpectedCalls = Append(@, ec)]
  /\ report' = Forget(report)
  /\ UNCHANGED <<server, probe>>

\* Server.ServeHTTP for one request, from the outermost middleware on.
ServeHTTP(k, r, returns) ==
  LET s == testServers[k]
      h == Wrap(s.middleware, Len(s.middleware), <<Routing>>)
      trace == Run(h, r, 1)
  IN
  /\ report.n < MaxRequests
  /\ report' = [(IF report.phase = "running" THEN report ELSE Forget(report))
                  EXCEPT !.n = @ + 1, !.srv = k, !.req = r, !.trace = trace]
  /\ testServers' =
       IF trace[Len(trace)] = Routing
       THEN [testServers EXCEPT ![k].ExpectedCalls = serveHTTP(@, r, returns)]
       ELSE testServers
  /\ UNCHANGED <<server, probe>>

\* Server.Assert as the package's loop calls it: verdict and messages.
ServerAssert(s) ==
  [Name |-> s.Name, pass |-> AssertPass(s.ExpectedCalls),
   errors |-> AssertErrors(s.ExpectedCalls)]

\* pass := true, and the range expression is evaluated.
PackageAssertCall ==
  /\ report.phase # "running"
  /\ report' = [Forget(report) EXCEPT !.phase = "running", !.i = 1]
  /\ UNCHANGED <<server, probe, testServers>>

\* Mutant: pass && s.Assert(t), which skips the call once pass is false.
PackageAssertShortCircuit ==
  /\ report.phase = "running"
  /\ report.i <= Len(testServers)
  /\ report' =
       IF report.pass
       THEN LET one == ServerAssert(testServers[report.i]) IN
            [Untraced(report) EXCEPT !.i = @ + 1, !.pass = one.pass,
                                     !.calls = Append(@, one)]
       ELSE [Untraced(report) EXCEPT !.i = @ + 1]
  /\ UNCHANGED <<server, probe, testServers>>

\* One iteration: pass = s.Assert(t) && pass.
PackageAssertIteration ==
  /\ report.phase = "running"
  /\ report.i <= Len(testServers)
  /\ LET one == ServerAssert(testServers[report.i]) IN
     report' = [Untraced(report) EXCEPT !.i = @ + 1, !.pass = one.pass /\ @,
                                        !.calls = Append(@, one)]
  /\ UNCHANGED <<server, probe, testServers>>

\* return pass
PackageAssertReturn ==
  /\ report.phase = "running"
  /\ report.i > Len(testServers)
  /\ report' = [Untraced(report) EXCEPT !.phase = "returned"]
  /\ UNCHANGED <<server, probe, testServers>>

NextRegistry ==
  \/ \E name \in Names : New(name)
  \/ \E k \in DOMAIN testServers, ms \in UseArgs : Use(k, ms)
  \/ \E k \in DOMAIN testServers, ec \in Expected : Expect(k, ec)
  \/ \E k \in DOMAIN testServers, r \in Requests, returns \in BOOLEAN :
       ServeHTTP(k, r, returns)
  \/ PackageAssertCall
  \/ PackageAssertIteration
  \/ PackageAssertReturn

SpecRegistry == Init /\ [][NextRegistry]_vars

\* ======================================================== properties
InFlight(w) == worker[w].pc \notin {"new", "done"}
Quiet == \A w \in Workers : ~InFlight(w)
Indexes == 1..Len(ExpectedCalls)
Min(S) == CHOOSE x \in S : \A y \in S : x <= y

\* K: the requests routed to entry i whose ServeHTTP has run to its end,
\* the one a synthetic entry served before it was appended included.
K(i) ==
  Cardinality({w \in Workers :
     /\ worker[w].pc = "done"
     /\ worker[w].out \in {"served", "synthetic"}
     /\ worker[w].ptr.idx = i})

\* No request routed to entry i is still being served.
Settled(i) == \A w \in Workers : InFlight(w) => worker[w].ptr.idx # i

\* C1 (counter conservation): once the K requests routed to an entry
\* registered with count N have finished being served, the entry's counter
\* in the server's list is N - K.
C1_CounterConservation ==
  \A i \in Indexes :
    Settled(i) => ExpectedCalls[i].Calls = account[i].N - K(i)

C3_SyntheticAccumulation ==
  \A r \in Requests :
    LET rs == {w \in Workers : worker[w].pc # "new" /\ worker[w].req = r}
        syn == {i \in Indexes :
                  /\ account[i].synthetic
                  /\ ExpectedCalls[i].Method = r.Method
                  /\ ExpectedCalls[i].Path = r.Path}
    IN  (/\ Quiet
         /\ rs # {}
         /\ \A w \in Workers : worker[w].pc # "new" => w \in rs
         /\ \A i \in Indexes :
              ~account[i].synthetic => ~Match(ExpectedCalls[i], r))
        => /\ Cardinality(syn) = 1
           /\ \A i \in syn : ExpectedCalls[i].Calls = 0 - Cardinality(rs)

\* C4 (Expect during serving): when a request routed to entry E completes
\* its ServeHTTP, the counter of E in the server's list goes down by one.
C4_DecrementReachesList ==
  [][\A w \in Workers :
       (worker[w].pc = "incAdd" /\ worker'[w].pc = "done") =>
         ExpectedCalls'[worker[w].ptr.idx].Calls =
           ExpectedCalls[worker[w].ptr.idx].Calls - 1]_vars

\* C5 (verdict): Assert returns true exactly when every counter of the
\* list is 0, and then it has recorded no message.
C5_AssertVerdict ==
  result.op = "Assert" =>
    /\ result.pass <=> \A i \in Indexes : ExpectedCalls[i].Calls = 0
    /\ result.pass => result.errors = <<>>

\* Assert has passed on a list whose entry served a request.
C5_Witness ==
  /\ result.op = "Assert" /\ result.pass
  /\ \E w \in Workers : worker[w].pc = "done" /\ worker[w].out = "served"

\* C6 (reports): Assert records one message per entry with a non-zero
\* counter, in list order: "expected c more" for c > 0, "|c| unexpected"
\* for c < 0, each with the entry's method and path.
C6_AssertReports ==
  result.op = "Assert" =>
    LET nz == {i \in Indexes : ExpectedCalls[i].Calls # 0}
        Rank(i) == Cardinality({j \in nz : j <= i})
    IN  /\ Len(result.errors) = Cardinality(nz)
        /\ \A i \in nz :
             LET ec == ExpectedCalls[i]
                 msg == result.errors[Rank(i)]
             IN  /\ msg.Method = ec.Method /\ msg.Path = ec.Path
                 /\ ec.Calls > 0 => msg.kind = "expected" /\ msg.n = ec.Calls
                 /\ ec.Calls < 0 => msg.kind = "unexpected" /\ msg.n = 0 - ec.Calls

\* GET /a (calls=0) requested once, GET / (calls=1) never, an undeclared
\* POST /a once: three reports in list order.
C6_Witness ==
  /\ result.op = "Assert"
  /\ result.errors =
       << [kind |-> "unexpected", n |-> 1, Method |-> "GET", Path |-> <<"/", "a">>],
          [kind |-> "expected", n |-> 1, Method |-> "GET", Path |-> <<"/">>],
          [kind |-> "unexpected", n |-> 1, Method |-> "POST", Path |-> <<"/", "a">>] >>

\* The entry an unmatched request r leaves behind.
Surfaced(r, ec) ==
  /\ ec.Method = r.Method /\ ec.Path = r.Path
  /\ ec.Handler = NilHandler /\ ec.Calls < 0
Reported(r, errors) ==
  \E k \in 1..Len(errors) :
    /\ errors[k].kind = "unexpected"
    /\ errors[k].Method = r.Method /\ errors[k].Path = r.Path

C8_AlwaysDecrements ==
  \A w \in Workers :
    worker[w].pc = "done" => worker[w].out \in {"served", "synthetic"}

IsPrefix(p, s) == \E k \in 0..Len(s) : s = p \o SubSeq(s, k + 1, Len(s))

\* C10 (Match): Match returns true exactly when the methods are equal and
\* the request's path starts with the entry's path, and the call changes
\* neither its receiver, nor the request, nor the server.
C10_MatchExact ==
  /\ [](probe.called =>
          (probe.res <=> /\ probe.ec.Method = probe.r.Method
                         /\ IsPrefix(probe.ec.Path, probe.r.Path)))
  /\ [][probe'.called # probe.called =>
          /\ probe'.ec = probe.ec /\ probe'.r = probe.r
          /\ server' = server]_vars

\* Match has returned false on a request of the entry's method whose path
\* is shorter than the entry's prefix.
C10_Witness ==
  /\ probe.called /\ ~probe.res
  /\ probe.ec.Method = probe.r.Method
  /\ Len(probe.r.Path) < Len(probe.ec.Path)
  /\ probe.r.Path = SubSeq(probe.ec.Path, 1, Len(probe.r.Path))

\* C11 (Assert is read-only and idempotent): a call of Assert changes
\* neither the list nor anything else of the server, and a call that
\* directly follows another returns the same verdict and messages.
C11_AssertReadOnly ==
  [][result'.op = "Assert" =>
       /\ heap' = heap /\ cap' = cap /\ account' = account
       /\ worker' = worker /\ sm' = sm /\ listener' = listener
       /\ result.op = "Assert" =>
            result'.pass = result.pass /\ result'.errors = result.errors]_vars

\* Assert has been called twice in a row on a list with failures.
C11_Witness ==
  /\ result.op = "Assert" /\ result.nth = 2
  /\ Len(result.errors) >= 2

\* C13 (Close leaves the accounting untouched): the step of Close changes
\* neither the list nor a counter, so what Assert returns and records is
\* the same right before and right after it.
C13_CloseKeepsAccounting ==
  [][listener' # listener =>
       /\ heap' = heap /\ cap' = cap /\ account' = account
       /\ AssertPass(ExpectedCalls') = AssertPass(ExpectedCalls)
       /\ AssertErrors(ExpectedCalls') = AssertErrors(ExpectedCalls)]_vars

\* Assert has run after Close and still reports the failures.
C13_Witness ==
  /\ listener = "closed"
  /\ result.op = "Assert" /\ ~result.pass
  /\ result.errors = AssertErrors(ExpectedCalls) /\ Len(result.errors) >= 2

\* C14 (append-only list): every step keeps the list it found as a prefix
\* of the list it leaves, with the method, path and handler of every entry
\* unchanged.
C14_AppendOnly ==
  [][/\ Len(ExpectedCalls') >= Len(ExpectedCalls)
     /\ \A i \in Indexes :
          /\ ExpectedCalls'[i].Method = ExpectedCalls[i].Method
          /\ ExpectedCalls'[i].Path = ExpectedCalls[i].Path
          /\ ExpectedCalls'[i].Handler = ExpectedCalls[i].Handler]_vars

\* Declared and synthetic entries, a served request and a closed server.
C14_Witness ==
  /\ Len(ExpectedCalls) >= 3
  /\ listener = "closed"
  /\ \E i, j \in Indexes : account[i].synthetic /\ ~account[j].synthetic
  /\ \E w \in Workers : worker[w].out = "served"

\* The number of goroutines inside the critical section of Expect.
Appending ==
  Cardinality({w \in Workers : worker[w].pc = "append"})
    + (IF test.pc = "append" THEN 1 ELSE 0)

\* C15 (concurrent Expect calls lose nothing): at most one Expect is inside
\* its append, which it runs holding the lock; the list has one entry per
\* Expect call that has returned, and every synthetic registration is in
\* the list at an index of its own.
C15_NoExpectLost ==
  /\ Appending <= 1
  /\ (sm = NoOne) <=> (Appending = 0)
  /\ Len(ExpectedCalls) =
       test.calls + Cardinality({w \in Workers : worker[w].out = "synthetic"})
  /\ \A w \in Workers :
       worker[w].out = "synthetic" =>
         /\ worker[w].ptr.idx \in Indexes
         /\ account[worker[w].ptr.idx].synthetic
         /\ ExpectedCalls[worker[w].ptr.idx].Method = worker[w].req.Method
         /\ ExpectedCalls[worker[w].ptr.idx].Path = worker[w].req.Path
         /\ \A v \in Workers :
              (v # w /\ worker[v].out = "synthetic") =>
                worker[v].ptr.idx # worker[w].ptr.idx

\* Three Expect calls overlapped: one has returned, the test's is inside
\* its append, a request's waits for the lock.
C15_Witness ==
  /\ test.pc = "append"
  /\ \E w \in Workers : worker[w].pc = "expect"
  /\ \E w \in Workers : worker[w].out = "synthetic"

\* C16 (iteration under the list lock): a request reads the list, when it
\* evaluates the range and in every iteration of its scan, only while no
\* Expect holds the lock for its append.
C16_ScanUnderLock ==
  [][\A w \in Workers :
       (worker[w].pc \in {"new", "scan"} /\ worker'[w] # worker[w]) =>
         sm = NoOne]_vars

\* C17 (no lock across the handler): entering the handler takes no lock;
\* an entry's mutex is taken only by a request whose handler has returned
\* and is released when its ServeHTTP returns; the list lock is taken only
\* by an Expect.
C17_NoLockAcrossHandler ==
  [][/\ \A w \in Workers :
          /\ (worker[w].pc # "handler" /\ worker'[w].pc = "handler") =>
               heap' = heap /\ sm' = sm
          /\ (worker[w].pc = "handler" /\ worker'[w].pc = "handler") =>
               worker'[w] = worker[w]
          /\ (worker[w].pc = "incAdd" /\ worker'[w].pc = "done") =>
               \/ heap'[worker[w].ptr.gen] = <<>>
               \/ ~heap'[worker[w].ptr.gen][worker[w].ptr.idx].m
     /\ \A g \in DOMAIN heap : \A j \in 1..Len(heap[g]) :
          (j <= Len(heap'[g]) /\ ~heap[g][j].m /\ heap'[g][j].m) =>
            \E w \in Workers :
              /\ worker[w].pc = "incLock" /\ worker'[w].pc = "incAdd"
              /\ worker[w].ptr = [gen |-> g, idx |-> j]
     /\ (sm = NoOne /\ sm' = RequestProc) =>
          \E w \in Workers : worker[w].pc = "expect" /\ worker'[w].pc = "append"
    ]_vars

\* The first request is still in the handler of one entry; the second,
\* received later and routed to another entry, has been served and counted.
C17_Witness ==
  \E w, v \in Workers :
    /\ w < v
    /\ worker[w].pc = "handler" /\ worker[w].ptr # Local
    /\ worker[v].pc = "done" /\ worker[v].out = "served"
    /\ worker[v].ptr.idx # worker[w].ptr.idx
    /\ ExpectedCalls[worker[v].ptr.idx].Calls = account[worker[v].ptr.idx].N - 1

\* C18 (synthetic entries are never neutral): every synthetic entry of the
\* list has no handler and a counter of at most -1; an unmatched request
\* has decremented its entry before it registers it, and has no entry in
\* the list until its append.
C18_SyntheticNegative ==
  /\ \A i \in Indexes :
       account[i].synthetic =>
         ExpectedCalls[i].Handler = NilHandler /\ ExpectedCalls[i].Calls <= -1
  /\ \A w \in Workers :
       worker[w].pc \in {"expect", "append"} =>
         worker[w].ptr = Local /\ worker[w].ec.Calls = -1
  /\ Cardinality({i \in Indexes : account[i].synthetic}) =
       Cardinality({w \in Workers : worker[w].out = "synthetic"})

\* An unmatched request is served and waits to register while Assert has
\* just reported the synthetic entry of an earlier one.
C18_Witness ==
  /\ result.op = "Assert"
  /\ \E w \in Workers : worker[w].pc = "expect"
  /\ \E i \in Indexes : account[i].synthetic /\ ExpectedCalls[i].Calls = -1
  /\ Len(result.errors) = 1

\* C12 (the package's Assert covers every server): when it returns it has
\* called Server.Assert once per registered server, in registration order,
\* each call recording all the messages of its server whatever the earlier
\* ones returned, and its result is true iff every call returned true.
C12_AssertAllServers ==
  /\ [](report.phase = "returned" =>
          /\ Len(report.calls) = Len(testServers)
          /\ \A k \in DOMAIN testServers :
               report.calls[k].Name = testServers[k].Name
          /\ report.pass <=> \A k \in DOMAIN report.calls : report.calls[k].pass)
  /\ [][(report'.calls # report.calls /\ report'.calls # <<>>) =>
          LET s == testServers[Len(report.calls) + 1] IN
          report'.calls = Append(report.calls,
            [Name |-> s.Name, pass |-> AssertPass(s.ExpectedCalls),
             errors |-> AssertErrors(s.ExpectedCalls)])]_vars

\* The first server failed, and the second server's messages are recorded
\* all the same.
C12_Witness ==
  /\ report.phase = "returned" /\ ~report.pass
  /\ Len(report.calls) = 2
  /\ ~report.calls[1].pass
  /\ report.calls[2].errors # <<>>

\* C19 (middleware wraps routing in registration order): a request enters
\* the middleware in the order of Use and then the routing, which serves
\* and counts it; it ends at the first middleware that does not call its
\* next handler, and then no server changes; without middleware it enters
\* the routing at once.
C19_MiddlewareOrder ==
  [][report'.n # report.n =>
       LET k == report'.srv
           r == report'.req
           ms == testServers[k].middleware
           list == testServers[k].ExpectedCalls
           Blockers == {j \in 1..Len(ms) : ~CallsNext(ms[j], r)}
       IN
       IF Blockers = {}
       THEN /\ report'.trace = ms \o <<Routing>>
            /\ testServers'[k].ExpectedCalls \in
                 {serveHTTP(list, r, TRUE), serveHTTP(list, r, FALSE)}
            /\ testServers'[k].middleware = ms
            /\ \A j \in DOMAIN testServers : j # k => testServers'[j] = testServers[j]
       ELSE /\ report'.trace = SubSeq(ms, 1, Min(Blockers))
            /\ testServers' = testServers]_vars

\* A POST has gone through "log" and ended in "auth", on a server whose
\* list an earlier request has counted down.
C19_Witness ==
  /\ report.n = 2
  /\ report.trace = <<"log", "auth">>
  /\ report.req.Method = "POST"
  /\ \E i \in DOMAIN testServers[report.srv].ExpectedCalls :
       testServers[report.srv].ExpectedCalls[i].Calls < MaxCalls

====
